---- MODULE Spec2Model ----
\* The JS hooks adapter of crates/node_binding/src/plugins/mod.rs: the
\* construction of the five threadsafe functions (from_js_hooks), the five
\* plugin hooks that call them and await the result, and the host (Node)
\* loop that runs the queued calls.
EXTENDS Integers, Sequences, FiniteSets, TLC

\* Number of hook invocations the pipeline makes in one behaviour.
MaxCalls == 2

VARIABLES
  ctor_pc,      \* from_js_hooks: index of the next statement (1..11)
  ctor_status,  \* "running" | "ok" (Ok(JsHooksAdapter)) | "err" (Err(_))
  created,      \* threadsafe functions in creation order: [tsfn, cb]
  unrefd,       \* threadsafe functions in the order unref was called on them
  calls,        \* hook invocations in issue order, one record each
  queue,        \* per threadsafe function: ids of the calls queued for the host
  hostPos,      \* host loop: 0 idle, i = visiting the i-th created tsfn
  batch,        \* calls that were queued when the running host loop iteration began
  hostLog,      \* host callbacks run, in execution order
  op,           \* id of the live hook future holding &mut self, 0 if none
  pipeline      \* the Compilation: the host callbacks that wrote through a handle

vars == <<ctor_pc, ctor_status, created, unrefd, calls, queue, hostPos, batch,
          hostLog, op, pipeline>>

ctorVars == <<ctor_pc, ctor_status, created, unrefd>>
hostVars == <<hostPos, batch, hostLog>>

----------------------------------------------------------------------------
\* Names

\* The fields of JsHooksAdapter, named by their hook.
Tsfns == {"compilation", "this_compilation", "process_assets", "emit", "after_emit"}

\* The fields of JsHooks, the host callbacks.
JsHooks == {"process_assets", "this_compilation", "compilation", "emit", "after_emit"}

\* The text a host callback fails with, when it fails.
HostTextOf(cb) ==
  IF cb = "emit" THEN <<"disk", " ", "full">> ELSE <<"boom">>

\* Texts a host callback can fail with.
HostTexts == {HostTextOf(cb) : cb \in JsHooks}

\* A hook's name, as tokens.
HookName(h) ==
  CASE h = "compilation"      -> <<"compilation">>
    [] h = "this_compilation" -> <<"this", "_", "compilation">>
    [] h = "process_assets"   -> <<"process", "_", "assets">>
    [] h = "emit"             -> <<"emit">>
    [] h = "after_emit"       -> <<"after", "_", "emit">>

\* sub occurs in msg as a contiguous run of tokens.
Contains(msg, sub) ==
  \E i \in 0..(Len(msg) - Len(sub)) :
    \A j \in 1..Len(sub) : msg[i + j] = sub[j]

----------------------------------------------------------------------------
\* from_js_hooks

\* The create statements with compilation's placed before this_compilation's.
CreateOrderSwapped ==
  <<"process_assets", "emit", "after_emit", "compilation", "this_compilation">>

\* The create statements in the order of the JsHooksAdapter fields.
CreateOrderAsFields ==
  <<"compilation", "this_compilation", "process_assets", "emit", "after_emit">>

\* The order of the ThreadsafeFunction::create statements.
CreateOrder ==
  <<"process_assets", "emit", "after_emit", "this_compilation", "compilation">>

\* The unref statements with one line pasted twice.
UnrefOrderPasted ==
  <<"process_assets", "emit", "after_emit", "compilation", "compilation">>

\* The order of the unref statements.
UnrefOrder ==
  <<"process_assets", "emit", "after_emit", "compilation", "this_compilation">>

\* Creates with the callbacks of compilation and this_compilation exchanged.
CallbackOfCrossed(t) ==
  CASE t = "process_assets"   -> "process_assets"
    [] t = "emit"             -> "emit"
    [] t = "after_emit"       -> "after_emit"
    [] t = "this_compilation" -> "compilation"
    [] t = "compilation"      -> "this_compilation"

\* `let cb = unsafe { <hook>.raw() }`: the callback each tsfn is created with.
CallbackOf(t) ==
  CASE t = "process_assets"   -> "process_assets"
    [] t = "emit"             -> "emit"
    [] t = "after_emit"       -> "after_emit"
    [] t = "this_compilation" -> "this_compilation"
    [] t = "compilation"      -> "compilation"

\* A create with a queue of one call.
QueueSizeOne(t) == 1

\* The max_queue_size argument of each create: 0, no limit.
QueueSize(t) == 0

NCreate == Len(CreateOrder)
NUnref == Len(UnrefOrder)

\* The statement at ctor_pc: a create, an unref, or the final Ok(..).
CtorStep(pc) ==
  IF pc <= NCreate THEN [kind |-> "create", tsfn |-> CreateOrder[pc]]
  ELSE IF pc <= NCreate + NUnref
       THEN [kind |-> "unref", tsfn |-> UnrefOrder[pc - NCreate]]
       ELSE [kind |-> "return", tsfn |-> "none"]

\* A failed statement that ends the construction with what was built so far.
OnStepErrorKeep(pc) == [status |-> "ok", pc |-> pc]

\* What a failed statement does to the construction: `?` returns the error.
OnStepError(pc) == [status |-> "err", pc |-> pc]

\* ThreadsafeFunction::create(env.raw(), cb, 0, handler)? succeeded.
CreateTsfn ==
  /\ ctor_status = "running"
  /\ CtorStep(ctor_pc).kind = "create"
  /\ created' = Append(created, [tsfn |-> CtorStep(ctor_pc).tsfn,
                                 cb   |-> CallbackOf(CtorStep(ctor_pc).tsfn),
                                 size |-> QueueSize(CtorStep(ctor_pc).tsfn)])
  /\ ctor_pc' = ctor_pc + 1
  /\ UNCHANGED <<ctor_status, unrefd, calls, queue, hostPos, batch, hostLog, op, pipeline>>

\* <tsfn>.unref(&env)? succeeded.
UnrefTsfn ==
  /\ ctor_status = "running"
  /\ CtorStep(ctor_pc).kind = "unref"
  /\ unrefd' = Append(unrefd, CtorStep(ctor_pc).tsfn)
  /\ ctor_pc' = ctor_pc + 1
  /\ UNCHANGED <<ctor_status, created, calls, queue, hostPos, batch, hostLog, op, pipeline>>

\* A create or an unref returned Err: from_js_hooks returns it.
CtorFail ==
  /\ ctor_status = "running"
  /\ CtorStep(ctor_pc).kind \in {"create", "unref"}
  /\ ctor_status' = OnStepError(ctor_pc).status
  /\ ctor_pc' = OnStepError(ctor_pc).pc
  /\ UNCHANGED <<created, unrefd, calls, queue, hostPos, batch, hostLog, op, pipeline>>

\* Ok(JsHooksAdapter { .. })
CtorReturn ==
  /\ ctor_status = "running"
  /\ CtorStep(ctor_pc).kind = "return"
  /\ ctor_status' = "ok"
  /\ UNCHANGED <<ctor_pc, created, unrefd, calls, queue, hostPos, batch, hostLog, op, pipeline>>

from_js_hooks == CreateTsfn \/ UnrefTsfn \/ CtorFail \/ CtorReturn

----------------------------------------------------------------------------
\* The hooks of impl Plugin for JsHooksAdapter

\* self.<hook>_tsfn: the field a hook calls.
TsfnOf(h) ==
  CASE h = "compilation"      -> "compilation"
    [] h = "this_compilation" -> "this_compilation"
    [] h = "process_assets"   -> "process_assets"
    [] h = "emit"             -> "emit"
    [] h = "after_emit"       -> "after_emit"

\* The value passed to call: a JsCompilation over the transmuted
\* &'static mut Compilation, or ().
PassesHandle(h) == h \in {"compilation", "this_compilation"}

\* The text each hook's map_err puts before the error.
MapErrPrefix(h) ==
  CASE h = "compilation" ->
         <<"Failed", " ", "to", " ", "compilation", ":", " ">>
    [] h = "this_compilation" ->
         <<"Failed", " ", "to", " ", "this", "_", "compilation", ":", " ">>
    [] h = "process_assets" ->
         <<"Failed", " ", "to", " ", "call", " ", "process", " ", "assets", ":", " ">>
    [] h = "emit" ->
         <<"Failed", " ", "to", " ", "call", " ", "emit", ":", " ">>
    [] h = "after_emit" ->
         <<"Failed", " ", "to", " ", "call", " ", "after", " ", "emit", ":", " ">>

Ok == [k |-> "ok", msg |-> <<>>]
Err(m) == [k |-> "err", msg |-> m]
NoRet == [k |-> "none", msg |-> <<>>]

\* The error of a call that could not be queued (napi status, as text).
CallErrMsg == <<"Closing">>

\* The error of a non-blocking call on a tsfn whose queue is full.
QueueFullMsg == <<"QueueFull">>

\* ThreadsafeFunctionCallMode of every hook's call.
CallMode == "NonBlocking"

\* The queue of tsfn t has a limit and has reached it.
QueueFull(t) ==
  \E i \in 1..Len(created) :
    /\ created[i].tsfn = t
    /\ created[i].size # 0
    /\ Len(queue[t]) >= created[i].size

\* What call(value, mode) can return on tsfn t: queued, or an error status.
CallStatuses(t) ==
  IF QueueFull(t) /\ CallMode = "NonBlocking"
  THEN {"queue_full"}
  ELSE {"ok", "closing"}

\* The error of awaiting a completion slot whose sender was dropped.
RecvErrMsg == <<"channel", " ", "closed">>

\* `.await.map_err(|err| InternalError("<prefix>{err}"))?`: the outer error
\* (the receive error) is wrapped, the inner result is returned as it is.
AwaitResult(c) ==
  IF c.st = "closed"
  THEN Err(MapErrPrefix(c.hook) \o RecvErrMsg)
  ELSE c.slot

\* A call record as the hook creates it.
NewCall(h, status) ==
  [hook    |-> h,
   tsfn    |-> TsfnOf(h),
   handle  |-> PassesHandle(h),
   mode    |-> CallMode,
   st      |-> IF status = "ok" THEN "queued" ELSE "enqfail",
   aw      |-> IF status = "ok" THEN "waiting" ELSE "returned",
   ret     |-> CASE status = "ok"         -> NoRet
                 [] status = "closing"    -> Err(CallErrMsg)
                 [] status = "queue_full" -> Err(QueueFullMsg),
   slot    |-> NoRet,
   cbs     |-> 0]

\* Hooks that take the adapter by shared reference.
AdapterShared == TRUE

\* `&mut self`: a hook starts only while no other hook's future is alive.
AdapterFree == op = 0

\* First poll of a hook's future: build the value, call the tsfn in
\* non-blocking mode, `?` on its result, then wait.
HookCall(h) ==
  /\ ctor_status = "ok"
  /\ AdapterFree
  /\ Len(calls) < MaxCalls
  /\ \E status \in CallStatuses(TsfnOf(h)) :
       /\ calls' = Append(calls, NewCall(h, status))
       /\ queue' = IF status = "ok"
                   THEN [queue EXCEPT ![TsfnOf(h)] = Append(@, Len(calls) + 1)]
                   ELSE queue
       /\ op' = IF status = "ok" THEN Len(calls) + 1 ELSE 0
  /\ UNCHANGED <<ctorVars, hostVars, pipeline>>

\* A hook that returned as soon as the callback had run, without waiting for
\* the completion slot.
CompletedUnlessQueued(c) == c.st # "queued"

\* A hook that does not wait at all.
CompletedEarly(c) == TRUE

\* `.await` on the receiver is ready: the completion slot was written, or its
\* sender was dropped.
Completed(c) == c.st \in {"resolved", "failed", "closed"}

\* A hook that queues its call again when the call failed.
HookResumeRetry(h) ==
  /\ op # 0
  /\ calls[op].hook = h
  /\ Completed(calls[op])
  /\ IF AwaitResult(calls[op]).k = "err"
     THEN /\ calls' = [calls EXCEPT ![op].st = "queued", ![op].slot = NoRet]
          /\ queue' = [queue EXCEPT ![calls[op].tsfn] = Append(@, op)]
          /\ op' = op
     ELSE /\ calls' = [calls EXCEPT ![op].aw = "returned",
                                    ![op].ret = AwaitResult(calls[op])]
          /\ queue' = queue
          /\ op' = 0
  /\ UNCHANGED <<ctorVars, hostVars, pipeline>>

\* A hook that undoes the host's writes when its call failed.
AfterHookRollback(p, r) == IF r.k = "err" THEN <<>> ELSE p

\* The Compilation after a hook returned r: the hook itself writes nothing
\* to it (emit and after_emit do not even name their argument).
AfterHook(p, r) == p

\* The await completes: the hook returns to the pipeline.
HookResume(h) ==
  /\ op # 0
  /\ calls[op].hook = h
  /\ Completed(calls[op])
  /\ calls' = [calls EXCEPT ![op].aw = "returned",
                            ![op].ret = AwaitResult(calls[op])]
  /\ op' = 0
  /\ pipeline' = AfterHook(pipeline, AwaitResult(calls[op]))
  /\ UNCHANGED <<ctorVars, hostVars, queue>>

compilation == HookCall("compilation") \/ HookResume("compilation")
this_compilation == HookCall("this_compilation") \/ HookResume("this_compilation")
process_assets == HookCall("process_assets") \/ HookResume("process_assets")
emit == HookCall("emit") \/ HookResume("emit")
after_emit == HookCall("after_emit") \/ HookResume("after_emit")

\* A drop that takes the call back out of its tsfn's queue.
DropAwaiterCancel ==
  /\ op # 0
  /\ calls' = [calls EXCEPT ![op].aw = "dropped"]
  /\ queue' = [queue EXCEPT ![calls[op].tsfn] = SelectSeq(@, LAMBDA x : x # op)]
  /\ op' = 0
  /\ UNCHANGED <<ctorVars, hostVars, pipeline>>

\* The pipeline drops a hook's future while it waits; nothing is sent to
\* the host and the queued call stays queued.
DropAwaiter ==
  /\ op # 0
  /\ calls' = [calls EXCEPT ![op].aw = "dropped"]
  /\ op' = 0
  /\ UNCHANGED <<ctorVars, hostVars, queue, pipeline>>

----------------------------------------------------------------------------
\* The host loop and the threadsafe functions' queues

\* A queue that hands out its newest call first.
NextQueuedNewest(q) == q[Len(q)]

\* The call a threadsafe function hands to the host next.
NextQueued(q) == Head(q)

\* A threadsafe function that delivers only while it is referenced.
CanDispatchWhileRefd(t) ==
  /\ queue[t] # <<>>
  /\ \A i \in 1..Len(unrefd) : unrefd[i] # t

\* A threadsafe function has a call to deliver, referenced or not.
CanDispatch(t) == queue[t] # <<>>

\* A handler that resolves with the callback's value and then treats the
\* value as a promise as well.
result_handler_twice(c, outcome) ==
  CASE outcome = "throw"   -> [c EXCEPT !.st = "closed", !.cbs = @ + 1]
    [] outcome = "ok"      -> [c EXCEPT !.st = "running", !.slot = Ok, !.cbs = @ + 1]
    [] outcome = "promise" -> [c EXCEPT !.st = "running", !.cbs = @ + 1]
    [] outcome = "never"   -> [c EXCEPT !.st = "stuck", !.cbs = @ + 1]

\* The handler given to ThreadsafeFunction::create: run the callback, `?`
\* on its result (the resolver is dropped with the handler's frame, and the
\* thrown text with it), else resolver.resolve(result, |_| Ok(())).
result_handler(c, outcome) ==
  CASE outcome = "throw"   -> [c EXCEPT !.st = "closed", !.cbs = @ + 1]
    [] outcome = "ok"      -> [c EXCEPT !.st = "resolved", !.slot = Ok, !.cbs = @ + 1]
    [] outcome = "promise" -> [c EXCEPT !.st = "running", !.cbs = @ + 1]
    [] outcome = "never"   -> [c EXCEPT !.st = "stuck", !.cbs = @ + 1]

\* resolver.resolve on a promise: the slot is written when it settles.
Settled(c, outcome, text) ==
  IF outcome = "ok"
  THEN [c EXCEPT !.st = "resolved", !.slot = Ok]
  ELSE [c EXCEPT !.st = "failed", !.slot = Err(text)]

\* The host loop starts an iteration over the threadsafe functions.
HostBegin ==
  /\ hostPos = 0
  /\ \E t \in Tsfns : CanDispatch(t)
  /\ hostPos' = 1
  /\ batch' = {c \in 1..Len(calls) : calls[c].st = "queued"}
  /\ UNCHANGED <<ctorVars, calls, queue, hostLog, op, pipeline>>

\* The tsfn under the cursor has a queued call: run its callback.
HostDispatch ==
  /\ hostPos \in 1..Len(created)
  /\ CanDispatch(created[hostPos].tsfn)
  /\ LET t == created[hostPos].tsfn
         c == NextQueued(queue[t])
     IN  /\ \E outcome \in {"ok", "throw", "promise", "never"} :
              calls' = [calls EXCEPT ![c] = result_handler(@, outcome)]
         /\ hostLog' = Append(hostLog, [call |-> c, cb |-> created[hostPos].cb])
         /\ queue' = [queue EXCEPT ![t] = SelectSeq(@, LAMBDA x : x # c)]
         /\ pipeline' = IF calls[c].handle
                        THEN Append(pipeline, created[hostPos].cb)
                        ELSE pipeline
  /\ UNCHANGED <<ctorVars, hostPos, batch, op>>

\* The position after i of the next created tsfn that has a call queued, 0
\* (the iteration is over) when there is none.
NextPos(i) ==
  LET later == {j \in (i + 1)..Len(created) : CanDispatch(created[j].tsfn)}
  IN  IF later = {} THEN 0 ELSE CHOOSE j \in later : \A k \in later : j <= k

\* The tsfn under the cursor has nothing queued: go on to the next one that
\* has, or end the iteration.
HostAdvance ==
  /\ hostPos \in 1..Len(created)
  /\ ~CanDispatch(created[hostPos].tsfn)
  /\ hostPos' = NextPos(hostPos)
  /\ batch' = IF NextPos(hostPos) = 0 THEN {} ELSE batch
  /\ UNCHANGED <<ctorVars, calls, queue, hostLog, op, pipeline>>

\* The callback the created tsfn t is bound to.
BoundCallback(t) ==
  created[CHOOSE i \in 1..Len(created) : created[i].tsfn = t].cb

\* A promise returned by a callback settles.
HostSettle ==
  /\ \E c \in 1..Len(calls) :
       /\ calls[c].st = "running"
       /\ \E outcome \in {"ok", "reject"} :
            calls' = [calls EXCEPT ![c] =
                        Settled(@, outcome, HostTextOf(BoundCallback(calls[c].tsfn)))]
  /\ UNCHANGED <<ctorVars, hostVars, queue, op, pipeline>>

Host == HostBegin \/ HostDispatch \/ HostAdvance \/ HostSettle

----------------------------------------------------------------------------

Init ==
  /\ ctor_pc = 1
  /\ ctor_status = "running"
  /\ created = <<>>
  /\ unrefd = <<>>
  /\ calls = <<>>
  /\ queue = [t \in Tsfns |-> <<>>]
  /\ hostPos = 0
  /\ batch = {}
  /\ hostLog = <<>>
  /\ op = 0
  /\ pipeline = <<>>

Next ==
  \/ from_js_hooks
  \/ compilation
  \/ this_compilation
  \/ process_assets
  \/ emit
  \/ after_emit
  \/ DropAwaiter
  \/ Host

Spec == Init /\ [][Next]_vars

\* The host loop keeps running and a promise that is going to settle does.
HostLoop == HostBegin \/ HostDispatch \/ HostAdvance
FairSpec == Spec /\ WF_vars(HostLoop) /\ WF_vars(HostSettle)

----------------------------------------------------------------------------
\* Properties

CallIds == 1..Len(calls)

\* The tsfns of a sequence of created records.
TsfnSeq(cs) == [i \in 1..Len(cs) |-> cs[i].tsfn]

IsPrefix(p, q) == Len(p) <= Len(q) /\ \A i \in 1..Len(p) : p[i] = q[i]

SeqRange(q) == {q[i] : i \in 1..Len(q)}

\* The position of call c in the host's execution order, 0 if it has not run.
ExecIdx(c) ==
  IF \E i \in 1..Len(hostLog) : hostLog[i].call = c
  THEN CHOOSE i \in 1..Len(hostLog) : hostLog[i].call = c
  ELSE 0

\* The position of tsfn t in creation order, 0 if it was not created.
ChanIdx(t) ==
  IF \E i \in 1..Len(created) : created[i].tsfn = t
  THEN CHOOSE i \in 1..Len(created) : created[i].tsfn = t
  ELSE 0

\* C1: of the calls that are queued when a host loop iteration begins, a call
\* on an earlier created tsfn runs before every call on a later created one,
\* whatever the order they were issued in; a compilation call issued before a
\* this_compilation call runs after it.
Thm_C1 ==
  /\ \A a, b \in batch :
       (ChanIdx(calls[a].tsfn) < ChanIdx(calls[b].tsfn) /\ ExecIdx(b) # 0)
         => (ExecIdx(a) # 0 /\ ExecIdx(a) < ExecIdx(b))
  /\ \A a, b \in batch :
       (/\ a < b
        /\ calls[a].hook = "compilation"
        /\ calls[b].hook = "this_compilation"
        /\ ExecIdx(a) # 0)
         => (ExecIdx(b) # 0 /\ ExecIdx(b) < ExecIdx(a))

\* compilation was issued first, this_compilation second, both were queued
\* when the iteration began, and the host ran this_compilation first.
Wit_C1 ==
  \E a, b \in batch :
    /\ a < b
    /\ calls[a].hook = "compilation"
    /\ calls[b].hook = "this_compilation"
    /\ ExecIdx(b) # 0
    /\ ExecIdx(b) < ExecIdx(a)
    /\ hostLog[ExecIdx(b)].cb = "this_compilation"
    /\ hostLog[ExecIdx(a)].cb = "compilation"

\* C2: on one tsfn the host runs the calls in the order they were queued:
\* none runs before an earlier one, none runs twice, none is lost.
Thm_C2 ==
  /\ \A i, j \in 1..Len(hostLog) : i # j => hostLog[i].call # hostLog[j].call
  /\ \A a, b \in CallIds :
       (/\ a < b
        /\ calls[a].tsfn = calls[b].tsfn
        /\ calls[a].st # "enqfail"
        /\ ExecIdx(b) # 0)
         => (ExecIdx(a) # 0 /\ ExecIdx(a) < ExecIdx(b))
  /\ \A c \in CallIds :
       /\ (calls[c].st = "queued") <=> (c \in SeqRange(queue[calls[c].tsfn]))
       /\ (calls[c].st = "queued") <=> (ExecIdx(c) = 0 /\ calls[c].st # "enqfail")
       /\ calls[c].cbs = (IF ExecIdx(c) = 0 THEN 0 ELSE 1)

\* Two calls on the same tsfn have both run, the earlier one first.
Wit_C2 ==
  \E a, b \in CallIds :
    /\ a < b
    /\ calls[a].tsfn = calls[b].tsfn
    /\ ExecIdx(a) # 0
    /\ ExecIdx(a) < ExecIdx(b)

\* C3: a hook whose callback reported a failure with text T returns an error
\* whose message contains the hook's name and T.
CE_C3 ==
  \A c \in CallIds :
    (calls[c].aw = "returned" /\ calls[c].st \in {"failed", "closed"})
      => /\ calls[c].ret.k = "err"
         /\ Contains(calls[c].ret.msg, HookName(calls[c].hook))
         /\ calls[c].st = "failed" => Contains(calls[c].ret.msg, calls[c].slot.msg)
         /\ calls[c].st = "closed" =>
              \E T \in HostTexts : Contains(calls[c].ret.msg, T)

\* C4: the tsfns are created one per hook in the order process_assets, emit,
\* after_emit, this_compilation, compilation.
Thm_C4 ==
  /\ IsPrefix(TsfnSeq(created),
              <<"process_assets", "emit", "after_emit", "this_compilation",
                "compilation">>)
  /\ ctor_status = "ok" =>
       /\ Len(created) = Cardinality(Tsfns)
       /\ SeqRange(TsfnSeq(created)) = Tsfns
       /\ ChanIdx("this_compilation") < ChanIdx("compilation")
  /\ ChanIdx("compilation") # 0 => ChanIdx("this_compilation") # 0

\* The adapter was constructed.
Wit_C4 ==
  /\ ctor_status = "ok"
  /\ ChanIdx("this_compilation") # 0
  /\ ChanIdx("this_compilation") < ChanIdx("compilation")

\* C5: a hook that queued its call has returned only if the host ran the
\* call's callback and the call is no longer pending; it returned success
\* exactly if the callback completed successfully. this_compilation then
\* compilation, both returning success, ran on the host in that order.
Thm_C5 ==
  /\ \A c \in CallIds :
       (calls[c].aw = "returned" /\ calls[c].st # "enqfail")
         => /\ ExecIdx(c) # 0
            /\ calls[c].st \in {"resolved", "failed", "closed"}
            /\ (calls[c].ret = Ok) <=> (calls[c].st = "resolved")
  /\ \A c \in CallIds : calls[c].ret = Ok => calls[c].st = "resolved"
  /\ (/\ Len(calls) >= 2
      /\ calls[1].hook = "this_compilation"
      /\ calls[2].hook = "compilation"
      /\ calls[1].ret = Ok
      /\ calls[2].ret = Ok)
       => /\ ExecIdx(1) = 1
          /\ ExecIdx(2) = 2
          /\ hostLog[1].cb = "this_compilation"
          /\ hostLog[2].cb = "compilation"

\* this_compilation, then compilation, both returned success.
Wit_C5 ==
  /\ Len(calls) >= 2
  /\ calls[1].hook = "this_compilation"
  /\ calls[2].hook = "compilation"
  /\ calls[1].ret = Ok
  /\ calls[2].ret = Ok
  /\ calls[2].aw = "returned"

\* C6: when a create or an unref fails, no adapter is returned, nothing after
\* the failing statement has run, and no hook is ever invoked; a hook is
\* invoked only on an adapter with all five tsfns created and unref'd.
Thm_C6 ==
  /\ ctor_status = "err" =>
       /\ Len(created) = (IF ctor_pc - 1 <= NCreate THEN ctor_pc - 1 ELSE NCreate)
       /\ Len(unrefd) = (IF ctor_pc - 1 <= NCreate THEN 0 ELSE ctor_pc - 1 - NCreate)
       /\ calls = <<>>
       /\ hostLog = <<>>
       /\ op = 0
  /\ (calls # <<>> \/ ctor_status = "ok") =>
       /\ ctor_status = "ok"
       /\ SeqRange(TsfnSeq(created)) = Tsfns
       /\ SeqRange(unrefd) = Tsfns

\* The construction failed at a create after some tsfns were created.
Wit_C6 ==
  /\ ctor_status = "err"
  /\ Len(created) = 2
  /\ CtorStep(ctor_pc).kind = "create"

\* C7 as stated: every tsfn is unref'd before the next one is created, and in
\* a constructed adapter all five are unref'd.
CE_C7 ==
  /\ \A i \in 1..(Len(created) - 1) : created[i].tsfn \in SeqRange(unrefd)
  /\ ctor_status = "ok" => SeqRange(unrefd) = Tsfns

\* C7: unref is called once all five tsfns are created, in the order
\* process_assets, emit, after_emit, compilation, this_compilation, and in a
\* constructed adapter all five are unref'd.
Thm_C7 ==
  /\ unrefd # <<>> => Len(created) = Cardinality(Tsfns)
  /\ IsPrefix(unrefd,
              <<"process_assets", "emit", "after_emit", "compilation",
                "this_compilation">>)
  /\ ctor_status = "ok" => SeqRange(unrefd) = Tsfns

\* The adapter was constructed with every tsfn unref'd.
Wit_C7 ==
  /\ ctor_status = "ok"
  /\ Len(unrefd) = Cardinality(Tsfns)

\* C8: every call queued on an unref'd tsfn is eventually run by the host,
\* and unless its callback never resolves its completion is delivered: from
\* some point on no call on an unref'd tsfn is left queued or unsettled.
Thm_C8 ==
  <>[](\A c \in CallIds :
         calls[c].tsfn \in SeqRange(unrefd)
           => calls[c].st \in {"enqfail", "resolved", "failed", "closed", "stuck"})

\* A call queued on an unref'd tsfn was run and resolved.
Wit_C8 ==
  \E c \in CallIds :
    /\ calls[c].tsfn \in SeqRange(unrefd)
    /\ ExecIdx(c) # 0
    /\ calls[c].st = "resolved"
    /\ calls[c].ret = Ok

\* C9: a hook whose callback never resolves does not return, and the calls
\* on the other tsfns are still run and completed: from some point on none
\* of them is left queued or unsettled.
Thm_C9 ==
  /\ [](\A c \in CallIds :
          calls[c].st = "stuck" => (calls[c].aw # "returned" /\ calls[c].ret = NoRet))
  /\ <>[](\A c, d \in CallIds :
            (calls[c].st = "stuck" /\ calls[d].tsfn # calls[c].tsfn)
              => calls[d].st \in {"enqfail", "resolved", "failed", "closed", "stuck"})

\* A callback never resolved, and a later call on another tsfn was run and
\* returned success.
Wit_C9 ==
  \E c, d \in CallIds :
    /\ c < d
    /\ calls[c].st = "stuck"
    /\ calls[d].tsfn # calls[c].tsfn
    /\ ExecIdx(c) # 0
    /\ ExecIdx(c) < ExecIdx(d)
    /\ calls[d].ret = Ok

\* C10: the host callback runs with, and holds, the compilation handle only
\* while the hook that passed it is still waiting for the call.
CE_C10 ==
  /\ [][\A c \in CallIds :
          (calls[c].handle /\ calls[c].st = "queued" /\ calls'[c].st # "queued")
            => calls[c].aw = "waiting"]_vars
  /\ [](\A c \in CallIds :
          (calls[c].handle /\ calls[c].st \in {"running", "stuck"})
            => calls[c].aw = "waiting")

\* A call the host has not completed: queued, or run and not yet settled.
Unresolved(c) == calls[c].st \in {"queued", "running", "stuck"}

\* C11: on the compilation and this_compilation tsfns no call is queued while
\* an earlier call on the same tsfn is still unresolved.
CE_C11 ==
  \A a, b \in CallIds :
    (/\ a < b
     /\ calls[a].tsfn = calls[b].tsfn
     /\ calls[a].tsfn \in {"compilation", "this_compilation"}
     /\ calls[b].st # "enqfail")
      => ~(Unresolved(a) /\ Unresolved(b))

\* C12: dropping a waiting hook's future changes nothing on the host side:
\* the call keeps its place in the queue, every other call is as it was, the
\* dropped hook never gets a result, and the host still runs the call.
Thm_C12 ==
  /\ [][\A c \in CallIds :
          (calls[c].aw = "waiting" /\ calls'[c].aw = "dropped")
            => /\ queue' = queue
               /\ hostLog' = hostLog
               /\ hostPos' = hostPos
               /\ calls'[c].st = calls[c].st
               /\ calls'[c].slot = calls[c].slot
               /\ \A d \in CallIds \ {c} : calls'[d] = calls[d]]_vars
  /\ [](\A c \in CallIds :
          calls[c].aw = "dropped"
            => /\ calls[c].ret = NoRet
               /\ (calls[c].st = "queued") <=> (c \in SeqRange(queue[calls[c].tsfn])))
  /\ <>[](\A c \in CallIds : calls[c].aw = "dropped" => ExecIdx(c) # 0)

\* A hook's future was dropped, the host still ran and resolved its call, the
\* result was returned to nobody, and a later call returned success.
Wit_C12 ==
  \E c, d \in CallIds :
    /\ c < d
    /\ calls[c].aw = "dropped"
    /\ calls[c].st = "resolved"
    /\ calls[c].slot = Ok
    /\ calls[c].ret = NoRet
    /\ ExecIdx(c) # 0
    /\ calls[d].aw = "returned"
    /\ calls[d].ret = Ok

\* C13: a call leaves pending at most once and stays resolved or failed; its
\* completion slot is written at most once, by the host side, and its result
\* is taken at most once, by the hook that waits for it.
Thm_C13 ==
  /\ [][\A c \in CallIds :
          /\ calls[c].st \in {"resolved", "failed", "closed"}
               => calls'[c].st = calls[c].st
          /\ calls[c].slot # NoRet => calls'[c].slot = calls[c].slot
          /\ calls'[c].slot # calls[c].slot
               => (calls[c].st \in {"queued", "running"} /\ op' = op)
          /\ calls[c].ret # NoRet => calls'[c] = calls[c]
          /\ calls'[c].ret # calls[c].ret
               => (op = c /\ calls[c].st \in {"resolved", "failed", "closed"})]_vars
  /\ [](\A c \in CallIds :
          /\ (calls[c].slot # NoRet) <=> (calls[c].st \in {"resolved", "failed"})
          /\ calls[c].st = "resolved" => calls[c].slot = Ok
          /\ calls[c].st = "failed" => calls[c].slot.k = "err")

\* One call failed and one resolved, and both results were taken.
Wit_C13 ==
  \E c, d \in CallIds :
    /\ calls[c].st = "failed"
    /\ calls[c].aw = "returned"
    /\ calls[c].ret = calls[c].slot
    /\ calls[d].st = "resolved"
    /\ calls[d].aw = "returned"
    /\ calls[d].ret = Ok

\* The number of times call c was handed to the host.
Runs(c) == Cardinality({i \in 1..Len(hostLog) : hostLog[i].call = c})

\* The number of entries call c has in the queue of tsfn t.
Entries(c, t) == Cardinality({i \in 1..Len(queue[t]) : queue[t][i] = c})

\* C14: a hook invocation queues one call on its tsfn and none elsewhere, the
\* host runs its callback at most once, a failed call is not queued again,
\* and the hook that returns after a failure returns the error.
Thm_C14 ==
  /\ \A c \in CallIds :
       /\ Runs(c) <= 1
       /\ calls[c].cbs = Runs(c)
       /\ Entries(c, calls[c].tsfn) + Runs(c)
            = (IF calls[c].st = "enqfail" THEN 0 ELSE 1)
       /\ \A t \in Tsfns \ {calls[c].tsfn} : Entries(c, t) = 0
       /\ calls[c].st \in {"failed", "closed"}
            => (Runs(c) = 1 /\ Entries(c, calls[c].tsfn) = 0)
       /\ (calls[c].aw = "returned" /\ calls[c].st \in {"failed", "closed", "enqfail"})
            => calls[c].ret.k = "err"
  /\ Len(hostLog) <= Len(calls)

\* A callback failed, it ran once, and its hook returned the error.
Wit_C14 ==
  \E c \in CallIds :
    /\ calls[c].st \in {"failed", "closed"}
    /\ Runs(c) = 1
    /\ calls[c].aw = "returned"
    /\ calls[c].ret.k = "err"
    /\ op = 0

\* The error behind a failed hook: of the call, of the await, or the host's.
Underlying(c) ==
  CASE calls[c].st = "enqfail" -> CallErrMsg
    [] calls[c].st = "closed"  -> RecvErrMsg
    [] OTHER                   -> calls[c].slot.msg

\* C15: whichever step failed, the error a hook returns carries the hook's
\* name and the underlying message.
CE_C15 ==
  \A c \in CallIds :
    calls[c].ret.k = "err"
      => /\ Contains(calls[c].ret.msg, HookName(calls[c].hook))
         /\ Contains(calls[c].ret.msg, Underlying(c))

\* C16: every tsfn is created without a queue limit and every call is made in
\* non-blocking mode, so no call is refused because a queue is full, however
\* many calls are queued; a queued call's hook waits from that step on.
Thm_C16 ==
  /\ \A i \in 1..Len(created) : created[i].size = 0
  /\ \A c \in CallIds :
       /\ calls[c].mode = "NonBlocking"
       /\ calls[c].ret.msg # QueueFullMsg
       /\ calls[c].st = "enqfail" => calls[c].ret = Err(CallErrMsg)
  /\ \A t \in Tsfns : ~QueueFull(t)
  /\ op # 0 => calls[op].aw = "waiting"

\* A call was queued on a tsfn that already had a call queued.
Wit_C16 ==
  \E t \in Tsfns :
    /\ Len(queue[t]) >= 2
    /\ op = queue[t][2]
    /\ calls[op].aw = "waiting"

\* C17: a hook queues its call on its own tsfn only, the host runs for it the
\* callback registered under the hook's name, and the call carries the
\* compilation handle exactly for compilation and this_compilation.
Thm_C17 ==
  /\ \A i \in 1..Len(created) : created[i].cb = created[i].tsfn
  /\ \A c \in CallIds :
       /\ calls[c].tsfn = calls[c].hook
       /\ calls[c].handle <=> (calls[c].hook \in {"compilation", "this_compilation"})
       /\ \A t \in Tsfns : Entries(c, t) # 0 => t = calls[c].hook
  /\ \A i \in 1..Len(hostLog) : hostLog[i].cb = calls[hostLog[i].call].hook

\* The host ran compilation's callback for a compilation call that carried
\* the handle and emit's callback for an emit call that carried nothing.
Wit_C17 ==
  \E c, d \in CallIds :
    /\ calls[c].hook = "compilation"
    /\ calls[c].handle
    /\ ExecIdx(c) # 0
    /\ hostLog[ExecIdx(c)].cb = "compilation"
    /\ calls[d].hook = "emit"
    /\ ~calls[d].handle
    /\ ExecIdx(d) # 0
    /\ hostLog[ExecIdx(d)].cb = "emit"

\* Call c fails in this step: its callback throws or its promise rejects.
FailsNow(c) ==
  /\ calls'[c].st \in {"failed", "closed"}
  /\ calls[c].st \notin {"failed", "closed"}

\* The hook of call c returns an error in this step.
ReturnsErrNow(c) ==
  /\ calls'[c].ret.k = "err"
  /\ calls[c].ret.k # "err"

\* C18: the Compilation changes only in a step in which the host runs a
\* callback that was given the handle; a call that fails, and a hook that
\* returns the failure, leave the Compilation to the host and leave the
\* queues and the calls of the other tsfns as they were.
Thm_C18 ==
  [][/\ pipeline' # pipeline
          => /\ Len(hostLog') = Len(hostLog) + 1
             /\ calls[hostLog'[Len(hostLog')].call].handle
             /\ pipeline' = Append(pipeline, hostLog'[Len(hostLog')].cb)
     /\ \A c \in CallIds :
          (FailsNow(c) \/ ReturnsErrNow(c))
            => /\ \A t \in Tsfns \ {calls[c].tsfn} : queue'[t] = queue[t]
               /\ \A d \in CallIds \ {c} : calls'[d] = calls[d]
               /\ Len(calls') = Len(calls)
               /\ ReturnsErrNow(c) => (pipeline' = pipeline /\ queue' = queue)
     /\ (Len(calls') > Len(calls) /\ calls'[Len(calls')].st = "enqfail")
          => /\ queue' = queue
             /\ pipeline' = pipeline
             /\ \A d \in CallIds : calls'[d] = calls[d]]_vars

\* The host wrote to the Compilation through a handle, a later call on
\* another tsfn failed and its hook returned the error, and the Compilation
\* holds the host's write alone.
Wit_C18 ==
  \E c, d \in CallIds :
    /\ calls[c].handle
    /\ ExecIdx(c) # 0
    /\ pipeline = <<calls[c].hook>>
    /\ calls[d].tsfn # calls[c].tsfn
    /\ calls[d].st \in {"failed", "closed"}
    /\ calls[d].aw = "returned"
    /\ calls[d].ret.k = "err"
    /\ ExecIdx(c) < ExecIdx(d)

\* C19 as stated: at most one call is unresolved at any time, and the host
\* runs the calls in the order the hooks were invoked.
CE_C19 ==
  /\ Cardinality({c \in CallIds : Unresolved(c)}) <= 1
  /\ \A a, b \in CallIds :
       (a < b /\ calls[a].st # "enqfail" /\ ExecIdx(b) # 0)
         => (ExecIdx(a) # 0 /\ ExecIdx(a) < ExecIdx(b))

\* C19: at most one hook waits for its call at any time, it is the one that
\* holds the adapter, and the host runs the calls whose hook was not dropped
\* in the order the hooks were invoked.
Thm_C19 ==
  /\ Cardinality({c \in CallIds : calls[c].aw = "waiting"}) <= 1
  /\ \A c \in CallIds : (calls[c].aw = "waiting") <=> (op = c)
  /\ op \in 0..Len(calls)
  /\ Cardinality({c \in CallIds : Unresolved(c) /\ calls[c].aw # "dropped"}) <= 1
  /\ \A a, b \in CallIds :
       (/\ a < b
        /\ calls[a].st # "enqfail"
        /\ calls[a].aw # "dropped"
        /\ calls[b].st # "enqfail")
         => (ExecIdx(a) # 0 /\ (ExecIdx(b) # 0 => ExecIdx(a) < ExecIdx(b)))

\* compilation was invoked and returned, then process_assets, whose tsfn was
\* created earlier, was invoked and returned: the host ran them in that order.
Wit_C19 ==
  /\ Len(calls) >= 2
  /\ calls[1].hook = "compilation"
  /\ calls[2].hook = "process_assets"
  /\ calls[1].aw = "returned"
  /\ calls[2].aw = "returned"
  /\ ExecIdx(1) # 0
  /\ ExecIdx(1) < ExecIdx(2)
  /\ ChanIdx("process_assets") < ChanIdx("compilation")

====
